---------------------------- MODULE Spec2Model ----------------------------
(***************************************************************************)
(* A model of the useClipboard hook (src/README.md, lines 197-498).        *)
(*                                                                         *)
(* One mounted component instance calls useClipboard(options) on every     *)
(* render.  The model keeps what React keeps between renders: the state    *)
(* of useState, the mounted ref of useSafeSetState, the three useMemo      *)
(* caches, the closure of the useCallback'ed writeText, and the timer of   *)
(* the last run of the useEffect.  Outside React it keeps the external     *)
(* clipboard writes that are outstanding, each with the closure of the     *)
(* writeText call that awaits it.                                          *)
(*                                                                         *)
(* A render commits first and its passive effect runs next: after an       *)
(* action that changes a dependency of the effect, effectPending is TRUE   *)
(* and RunEffect is the only step enabled, as React flushes a pending      *)
(* passive effect before it handles anything else.  The committed state    *)
(* in between is what that render returned to the caller.                  *)
(***************************************************************************)
EXTENDS Integers, Sequences, FiniteSets, Bags

VARIABLES
    state,              \* React.useState<UseClipboardState>
    mounted,            \* useSafeSetState: mounted.current
    options,            \* the options of the latest render: [text, timeout]
    hasTimeoutChange,   \* useMemo: the fingerprint of options.timeout
    durations,          \* useMemo: Durations
    nextStatusStates,   \* useMemo: NextStatusStates
    callback,           \* useCallback: the closure of the memoized writeText
    timers,             \* the pending timers of setTimeout
    timeoutId,          \* the timeoutId the cleanup of the last effect run holds
    effectPending,      \* a render committed and its effect has not run yet
    inflight,           \* bag of outstanding navigator.clipboard.writeText calls
    last,               \* history: the last step taken and what it did
    run                 \* history: the phases of the sequence now running

vars == <<state, mounted, options, hasTimeoutChange, durations,
          nextStatusStates, callback, timers, timeoutId, effectPending,
          inflight, last, run>>

-----------------------------------------------------------------------------
(* Bounds of the model. *)

\* Durations of a configuration are drawn from 0..MaxDur (time units).
MaxDur == 2

\* At most this many external writes are outstanding at once.
MaxInflight == 2

-----------------------------------------------------------------------------
(* Values. *)

\* A JavaScript string is a sequence of characters.
Str(chars) == [t |-> "string", n |-> 0, s |-> chars]
Num(k)     == [t |-> "number", n |-> k, s |-> <<>>]
Undefined  == [t |-> "undefined", n |-> 0, s |-> <<>>]
\* A React.SyntheticEvent, as a click handler passes it to writeText.
Event      == [t |-> "object", n |-> 0, s |-> <<>>]

Digit(k) == CASE k = 0 -> "0" [] k = 1 -> "1" [] k = 2 -> "2" [] k = 3 -> "3"
              [] k = 4 -> "4" [] k = 5 -> "5" [] k = 6 -> "6" [] k = 7 -> "7"
              [] k = 8 -> "8" [] k = 9 -> "9"

RECURSIVE NumberToString(_)
\* Number.prototype.toString of a natural number: its decimal digits.
NumberToString(k) ==
    IF k < 10 THEN <<Digit(k)>>
    ELSE NumberToString(k \div 10) \o <<Digit(k % 10)>>

UndefinedString == <<"u", "n", "d", "e", "f", "i", "n", "e", "d">>

\* What a template literal makes of a key of the timeout object.
KeyToString(key) ==
    IF key.has THEN NumberToString(key.n) ELSE UndefinedString

Phases == {"entering", "entered", "exiting", "exited"}
SequenceStatus == {"entering", "entered", "exiting"}

Absent == [has |-> FALSE, n |-> 0]
Key(k) == [has |-> TRUE, n |-> k]

NoMap == [entering |-> Absent, entered |-> Absent, exiting |-> Absent]
TimeoutUndefined == [t |-> "undefined", n |-> 0, m |-> NoMap]
TimeoutNumber(k) == [t |-> "number", n |-> k, m |-> NoMap]
TimeoutObject(map) == [t |-> "object", n |-> 0, m |-> map]

defaultDurations == [entering |-> 0, entered |-> 0, exiting |-> 0]

nextStatuses ==
    [exited |-> "entering", entering |-> "entered",
     entered |-> "exiting", exiting |-> "exited"]

defaultNextStatusStates ==
    [entering |-> [copyStatus |-> "resolved", transitionStatus |-> "entered"],
     entered  |-> [copyStatus |-> "resolved", transitionStatus |-> "exiting"],
     exiting  |-> [copyStatus |-> "idle", transitionStatus |-> "exited"]]

defaultState ==
    [error |-> "null", copyStatus |-> "idle", transitionStatus |-> "exited"]

\* Mutant: an if in place of the while, at most one phase is skipped.
GetLoopOnce(status, duration, nss, durs) ==
    IF status # "exited" /\ durs[status] <= 0
    THEN nss[status].transitionStatus
    ELSE status

RECURSIVE GetLoop(_, _, _, _)
\* The while loop of getTransitionStatus, one iteration per unfolding.
GetLoop(status, duration, nss, durs) ==
    IF status # "exited" /\ duration <= 0
    THEN LET d == durs[status]
         IN  IF d <= 0
             THEN GetLoop(nss[status].transitionStatus, d, nss, durs)
             ELSE GetLoop(status, d, nss, durs)
    ELSE status

getTransitionStatus(transitionStatus, nss, durs) ==
    GetLoop(transitionStatus, 0, nss, durs)

RECURSIVE GetLoopIterations(_, _, _, _)
\* The number of times the body of the while loop runs.
GetLoopIterations(status, duration, nss, durs) ==
    IF status # "exited" /\ duration <= 0
    THEN LET d == durs[status]
         IN  1 + IF d <= 0
                 THEN GetLoopIterations(nss[status].transitionStatus, d,
                                        nss, durs)
                 ELSE GetLoopIterations(status, d, nss, durs)
    ELSE 0

-----------------------------------------------------------------------------
(* The three useMemo computations of a render. *)

\* Mutant: the fingerprint of an object is made of the resolved durations,
\* an absent key read as 0.
ComputeHasTimeoutChangeResolved(timeout) ==
    IF timeout.t = "object"
    THEN Str(NumberToString(IF timeout.m.entering.has
                            THEN timeout.m.entering.n ELSE 0)
             \o NumberToString(IF timeout.m.entered.has
                               THEN timeout.m.entered.n ELSE 0)
             \o NumberToString(IF timeout.m.exiting.has
                               THEN timeout.m.exiting.n ELSE 0))
    ELSE [t |-> timeout.t, n |-> timeout.n, s |-> <<>>]

\* useMemo(hasTimeoutChange): a string for an object, the value otherwise.
ComputeHasTimeoutChange(timeout) ==
    IF timeout.t = "object"
    THEN Str(KeyToString(timeout.m.entering) \o KeyToString(timeout.m.entered)
             \o KeyToString(timeout.m.exiting))
    ELSE [t |-> timeout.t, n |-> timeout.n, s |-> <<>>]

\* key ?? 0
OrZero(key) == IF key.has THEN key.n ELSE 0

ComputeDurations(timeout) ==
    IF timeout.t = "object"
    THEN [entering |-> OrZero(timeout.m.entering),
          entered  |-> OrZero(timeout.m.entered),
          exiting  |-> OrZero(timeout.m.exiting)]
    ELSE [defaultDurations EXCEPT
            !.entered = IF timeout.t = "number" THEN timeout.n ELSE 0]

\* Mutant: the sequence map for every shape of timeout.
ComputeNextStatusStatesAlwaysSequence(timeout) == defaultNextStatusStates

ComputeNextStatusStates(timeout) ==
    IF timeout.t = "object"
    THEN defaultNextStatusStates
    ELSE [defaultNextStatusStates EXCEPT
            !.entered = [copyStatus |-> "idle", transitionStatus |-> "exited"]]


-----------------------------------------------------------------------------
(* Inputs. *)

KeyValues == {Absent} \cup {Key(k) : k \in 0..MaxDur}

TimeoutMaps == [entering : KeyValues, entered : KeyValues, exiting : KeyValues]

\* options.timeout: omitted, a number, or a (freshly allocated) object.
Timeouts ==
    {TimeoutUndefined} \cup {TimeoutNumber(k) : k \in 0..MaxDur}
        \cup {TimeoutObject(map) : map \in TimeoutMaps}

\* options.text
Texts == {Undefined, Str(<<>>), Str(<<"h", "i">>)}

\* The argument of a writeText call.
Args == {Undefined, Event, Str(<<>>), Str(<<"x">>), Num(0)}

TheError == "Error"

-----------------------------------------------------------------------------
(* Helpers of the hook. *)

\* text.toString()
TextToString(text) == IF text.t = "string" THEN text.s ELSE NumberToString(text.n)

\* Mutant: options.text first, the argument only without it.
ClipboardTextOptionsFirst(text, optionsText) ==
    IF optionsText.t # "undefined" /\ TextToString(optionsText) # <<>>
    THEN TextToString(optionsText)
    ELSE IF text.t = "string" \/ text.t = "number"
    THEN TextToString(text) ELSE <<>>

\* clipboardText of writeText: a plain argument, else options.text, else ''.
ClipboardText(text, optionsText) ==
    IF text.t = "string" \/ text.t = "number"
    THEN TextToString(text)
    ELSE IF optionsText.t = "undefined" THEN <<>> ELSE TextToString(optionsText)

\* The early exit of writeText while the sequence is in progress.
InProgress(closure) == closure.transitionStatus # "exited"

\* Mutant: setState without the mounted guard.
UnsafeSetState(action) == action

\* safeSetState(action): the state after the call.
SafeSetState(action) == IF mounted THEN action ELSE state

\* No effect cleanup holds a timer.
NoTimeoutId == 0

\* The id setTimeout returns: one no pending timer has.
FreshTimeoutId(pending) ==
    CHOOSE id \in 1..(Cardinality(pending) + 1) :
        /\ \A t \in pending : t.id # id
        /\ \A smaller \in 1..(id - 1) : \E t \in pending : t.id = smaller

\* Mutant: the cleanup cancels nothing.
EffectCleanupNothing(id, pending) == pending

\* clearTimeout(timeoutId), the cleanup of the effect: the timers left.
EffectCleanup(id, pending) == {t \in pending : t.id # id}

\* Mutant: the delay of 'entered' for every phase.
SetTimeoutEnteredDelay(id, transitionStatus, nss, durs) ==
    [id |-> id, transitionStatus |-> transitionStatus,
     nextStatusStates |-> nss, delay |-> durs.entered,
     remaining |-> durs.entered]

\* setTimeout(callback, durations[transitionStatus]) of the effect; the
\* callback closes over transitionStatus and nextStatusStates.
SetTimeout(id, transitionStatus, nss, durs) ==
    [id |-> id, transitionStatus |-> transitionStatus,
     nextStatusStates |-> nss, delay |-> durs[transitionStatus],
     remaining |-> durs[transitionStatus]]

\* Mutant: the timer keeps copyStatus 'resolved'.
TimerStateResolved(t) ==
    [error |-> "null", copyStatus |-> "resolved",
     transitionStatus |->
        t.nextStatusStates[t.transitionStatus].transitionStatus]

\* Mutant: the timer commits the phase it waited for again.
TimerStateSamePhase(t) ==
    [error |-> "null", copyStatus |-> "resolved",
     transitionStatus |-> t.transitionStatus]

\* The state the callback of the timer passes to safeSetState.
TimerState(t) ==
    LET nextStatusState == t.nextStatusStates[t.transitionStatus]
    IN  [error |-> "null", copyStatus |-> nextStatusState.copyStatus,
         transitionStatus |-> nextStatusState.transitionStatus]

\* Mutant: the memos depend on the identity of options.timeout, which is
\* new for every object (a string fingerprint comes from an object).
MemoDepsChangedByIdentity(oldFingerprint, newFingerprint) ==
    newFingerprint.t = "string" \/ oldFingerprint # newFingerprint

\* The dependency [hasTimeoutChange] of the durations and nextStatusStates
\* memos: they are recomputed when the fingerprint is another value.
MemoDepsChanged(oldFingerprint, newFingerprint) ==
    oldFingerprint # newFingerprint

\* The dependencies [options.text, nextStatusStates, durations] of writeText.
CallbackDepsChanged(oldText, newText, memosRecomputed) ==
    oldText # newText \/ memosRecomputed

\* The closure a render creates for writeText: what the function reads of
\* that render's state, options.text, nextStatusStates and durations.
Closure(st, text, nss, durs) ==
    [transitionStatus |-> st.transitionStatus, text |-> text,
     nextStatusStates |-> nss, durations |-> durs]

\* What the rest of a writeText call reads of its closure after the await.
Awaiting(closure) ==
    [transitionStatus |-> closure.transitionStatus,
     nextStatusStates |-> closure.nextStatusStates,
     durations |-> closure.durations]

\* The first status of the sequence, computed after the await.
FirstStatus(closure) ==
    getTransitionStatus(nextStatuses[closure.transitionStatus],
                        closure.nextStatusStates, closure.durations)

\* Mutant: no early exit when there is no transition sequence.
WriteTextTryNoExit(closure) ==
    [state |-> SafeSetState([error |-> "null", copyStatus |-> "resolved",
                             transitionStatus |-> FirstStatus(closure)]),
     set |-> mounted, promise |-> "fulfilled"]

\* Mutant: the first status is computed from the table and the map of the
\* latest render.
WriteTextTryLatestRender(closure) ==
    LET transitionStatus ==
            getTransitionStatus(nextStatuses[closure.transitionStatus],
                                nextStatusStates, durations)
    IN  IF transitionStatus = "exited"
        THEN [state |-> state, set |-> FALSE, promise |-> "fulfilled"]
        ELSE [state |-> SafeSetState([error |-> "null",
                                      copyStatus |-> "resolved",
                                      transitionStatus |-> transitionStatus]),
              set |-> mounted, promise |-> "fulfilled"]

\* The try block after a successful await (lines 429-442).
WriteTextTry(closure) ==
    LET transitionStatus == FirstStatus(closure)
    IN  IF transitionStatus = "exited"
        THEN [state |-> state, set |-> FALSE, promise |-> "fulfilled"]
        ELSE [state |-> SafeSetState([error |-> "null",
                                      copyStatus |-> "resolved",
                                      transitionStatus |-> transitionStatus]),
              set |-> mounted, promise |-> "fulfilled"]

\* Mutant: no catch block, the error leaves the async function.
WriteTextRethrow(error) ==
    [state |-> state, set |-> FALSE, promise |-> "rejected"]

\* The catch block (lines 443-449).
WriteTextCatch(error) ==
    [state |-> SafeSetState([error |-> error, copyStatus |-> "rejected",
                             transitionStatus |-> "exited"]),
     set |-> mounted, promise |-> "fulfilled"]

-----------------------------------------------------------------------------
(* History. *)

NoRun == [on |-> FALSE, seen |-> <<>>, held |-> 0]

Step(op) ==
    [op |-> op, arg |-> Undefined, invoked |-> FALSE, wrote |-> <<>>,
     promise |-> "none", recomputed |-> FALSE]

\* The phase that ends now, with the time it was held.
Seen == [copyStatus |-> state.copyStatus,
         transitionStatus |-> state.transitionStatus, held |-> run.held]

-----------------------------------------------------------------------------
(* Initial state: the state after the first render and its effects. *)

InitWith(renderOptions) ==
    /\ state = defaultState
    /\ mounted = TRUE
    /\ options = renderOptions
    /\ hasTimeoutChange = ComputeHasTimeoutChange(options.timeout)
    /\ durations = ComputeDurations(options.timeout)
    /\ nextStatusStates = ComputeNextStatusStates(options.timeout)
    /\ callback = Closure(state, options.text, nextStatusStates, durations)
    /\ timers = {}
    /\ timeoutId = NoTimeoutId
    /\ effectPending = FALSE
    /\ inflight = EmptyBag
    /\ last = Step("mount")
    /\ run = NoRun

Init == \E renderOptions \in [text : Texts, timeout : Timeouts] :
            InitWith(renderOptions)

-----------------------------------------------------------------------------
(* Actions. *)

\* A call of the memoized writeText, up to its await (lines 414-427).
WriteText(text) ==
    /\ ~effectPending
    /\ LET clipboardText == ClipboardText(text, callback.text)
           exits == InProgress(callback) \/ clipboardText = <<>>
       IN  /\ \/ exits
              \/ BagCardinality(inflight) < MaxInflight
           /\ inflight' = IF exits THEN inflight
                          ELSE inflight (+) SetToBag({Awaiting(callback)})
           /\ last' = [Step("writeText") EXCEPT
                         !.arg = text,
                         !.invoked = ~exits,
                         !.wrote = IF exits THEN <<>> ELSE clipboardText,
                         !.promise = IF exits THEN "fulfilled" ELSE "pending"]
    /\ run' = NoRun
    /\ UNCHANGED <<state, mounted, options, hasTimeoutChange, durations,
                   nextStatusStates, callback, timers, timeoutId,
                   effectPending>>

\* navigator.clipboard.writeText resolves: the rest of the try block.
WriteResolved(closure) ==
    /\ ~effectPending
    /\ BagIn(closure, inflight)
    /\ inflight' = inflight (-) SetToBag({closure})
    /\ LET result == WriteTextTry(closure)
       IN  /\ state' = result.state
           /\ effectPending' = result.set
           /\ last' = [Step("writeResolved") EXCEPT !.promise = result.promise]
           /\ run' = IF /\ result.set
                        /\ state = defaultState
                        /\ closure.durations = durations
                        /\ closure.nextStatusStates = nextStatusStates
                     THEN [on |-> TRUE, seen |-> <<>>, held |-> 0]
                     ELSE NoRun
    /\ UNCHANGED <<mounted, options, hasTimeoutChange, durations,
                   nextStatusStates, callback, timers, timeoutId>>

\* navigator.clipboard.writeText rejects: the catch block.
WriteRejected(closure) ==
    /\ ~effectPending
    /\ BagIn(closure, inflight)
    /\ inflight' = inflight (-) SetToBag({closure})
    /\ LET result == WriteTextCatch(TheError)
       IN  /\ state' = result.state
           /\ effectPending' = result.set
           /\ last' = [Step("writeRejected") EXCEPT !.promise = result.promise]
    /\ run' = NoRun
    /\ UNCHANGED <<mounted, options, hasTimeoutChange, durations,
                   nextStatusStates, callback, timers, timeoutId>>

\* The transition effect (lines 457-486), after the cleanup of its last run.
RunEffect ==
    /\ effectPending
    /\ LET cleared == EffectCleanup(timeoutId, timers)
           transitionStatus ==
               getTransitionStatus(state.transitionStatus, nextStatusStates,
                                   durations)
           id == FreshTimeoutId(cleared)
       IN  IF state.transitionStatus = "exited"
           THEN /\ timers' = cleared
                /\ timeoutId' = NoTimeoutId
                /\ effectPending' = FALSE
                /\ UNCHANGED <<state, run>>
           ELSE IF transitionStatus = "exited"
           THEN /\ timers' = cleared
                /\ timeoutId' = NoTimeoutId
                /\ state' = SafeSetState(defaultState)
                /\ effectPending' = mounted
                /\ run' = IF run.on
                          THEN [run EXCEPT !.seen = Append(run.seen, Seen),
                                           !.held = 0]
                          ELSE run
           ELSE /\ timers' = cleared \cup
                        {SetTimeout(id, transitionStatus, nextStatusStates,
                                    durations)}
                /\ timeoutId' = id
                /\ effectPending' = FALSE
                /\ UNCHANGED <<state, run>>
    /\ last' = Step("effect")
    /\ UNCHANGED <<mounted, options, hasTimeoutChange, durations,
                   nextStatusStates, callback, inflight>>

\* One unit of time passes while timers wait, none of them due.
Tick ==
    /\ ~effectPending
    /\ timers # {}
    /\ \A t \in timers : t.remaining > 0
    /\ timers' = {[t EXCEPT !.remaining = t.remaining - 1] : t \in timers}
    /\ last' = Step("tick")
    /\ run' = IF run.on THEN [run EXCEPT !.held = run.held + 1] ELSE run
    /\ UNCHANGED <<state, mounted, options, hasTimeoutChange, durations,
                   nextStatusStates, callback, timeoutId, effectPending,
                   inflight>>

\* A due timer fires: the callback of setTimeout (lines 473-481).
TimerFired(t) ==
    /\ ~effectPending
    /\ t \in timers
    /\ t.remaining = 0
    /\ state' = SafeSetState(TimerState(t))
    /\ timers' = timers \ {t}
    /\ effectPending' = mounted
    /\ last' = Step("timer")
    /\ run' = IF run.on
              THEN [run EXCEPT !.seen = Append(run.seen, Seen), !.held = 0]
              ELSE run
    /\ UNCHANGED <<mounted, options, hasTimeoutChange, durations,
                   nextStatusStates, callback, timeoutId, inflight>>

\* The owner renders again with these options (lines 358-452); an object
\* given as timeout is allocated anew by every render of the owner.
Configure(text, timeout) ==
    /\ ~effectPending
    /\ mounted
    /\ LET fingerprint == ComputeHasTimeoutChange(timeout)
           recompute == MemoDepsChanged(hasTimeoutChange, fingerprint)
           durs == IF recompute THEN ComputeDurations(timeout) ELSE durations
           nss == IF recompute THEN ComputeNextStatusStates(timeout)
                  ELSE nextStatusStates
       IN  /\ options' = [text |-> text, timeout |-> timeout]
           /\ hasTimeoutChange' = fingerprint
           /\ durations' = durs
           /\ nextStatusStates' = nss
           /\ callback' = IF CallbackDepsChanged(options.text, text, recompute)
                          THEN Closure(state, text, nss, durs)
                          ELSE callback
           /\ effectPending' = recompute
           /\ last' = [Step("configure") EXCEPT !.recomputed = recompute]
    /\ run' = NoRun
    /\ UNCHANGED <<state, mounted, timers, timeoutId, inflight>>

\* The component unmounts: the cleanups of useSafeSetState and the effect.
Unmount ==
    /\ ~effectPending
    /\ mounted
    /\ mounted' = FALSE
    /\ timers' = EffectCleanup(timeoutId, timers)
    /\ timeoutId' = NoTimeoutId
    /\ last' = Step("unmount")
    /\ run' = NoRun
    /\ UNCHANGED <<state, options, hasTimeoutChange, durations,
                   nextStatusStates, callback, effectPending, inflight>>

Next ==
    \/ \E text \in Args : WriteText(text)
    \/ \E closure \in BagToSet(inflight) : WriteResolved(closure)
    \/ \E closure \in BagToSet(inflight) : WriteRejected(closure)
    \/ RunEffect
    \/ Tick
    \/ \E t \in timers : TimerFired(t)
    \/ \E text \in Texts : Configure(text, options.timeout)
    \/ Unmount

Spec == Init /\ [][Next]_vars

\* The calls a caller makes who sees the phase: writeText only while the
\* committed phase is 'exited'.
NextOverlap ==
    \/ \E text \in Args : state.transitionStatus = "exited" /\ WriteText(text)
    \/ \E closure \in BagToSet(inflight) : WriteResolved(closure)
    \/ \E closure \in BagToSet(inflight) : WriteRejected(closure)
    \/ RunEffect
    \/ Tick
    \/ \E t \in timers : TimerFired(t)
    \/ \E text \in Texts : Configure(text, options.timeout)
    \/ Unmount

SpecOverlap == Init /\ [][NextOverlap]_vars

\* A timeout object with its three keys.
SequenceMap(entering, entered, exiting) ==
    [entering |-> Key(entering), entered |-> Key(entered),
     exiting |-> Key(exiting)]

\* The timeouts successive renders choose from: omitted, a number, one table
\* written with and without its zero keys, a table with a zero phase in the
\* middle, and two tables of more than one digit.
ChangingTimeouts ==
    {TimeoutUndefined,
     TimeoutNumber(MaxDur),
     TimeoutObject([NoMap EXCEPT !.entered = Key(MaxDur)]),
     TimeoutObject(SequenceMap(0, MaxDur, 0)),
     TimeoutObject(SequenceMap(1, 0, 1)),
     TimeoutObject(SequenceMap(1, 10, 0)),
     TimeoutObject(SequenceMap(11, 0, 0))}

InitReconfigure ==
    \E renderOptions \in [text : Texts, timeout : ChangingTimeouts] :
        InitWith(renderOptions)

\* Renders change the text or the timeout.
NextReconfigure ==
    \/ \E text \in Args : WriteText(text)
    \/ \E closure \in BagToSet(inflight) : WriteResolved(closure)
    \/ \E closure \in BagToSet(inflight) : WriteRejected(closure)
    \/ RunEffect
    \/ Tick
    \/ \E t \in timers : TimerFired(t)
    \/ \E text \in Texts : Configure(text, options.timeout)
    \/ \E timeout \in ChangingTimeouts : Configure(options.text, timeout)
    \/ Unmount

SpecReconfigure == InitReconfigure /\ [][NextReconfigure]_vars

\* Effects are flushed, time passes and due timers fire.
Fairness ==
    /\ WF_vars(RunEffect)
    /\ WF_vars(Tick)
    /\ WF_vars(\E t \in timers : TimerFired(t))

SpecLive == Init /\ [][Next]_vars /\ Fairness

\* getTransitionStatus on its own: any phase, any table of durations from
\* below zero to MaxDur, either map.
PureDurations == (0 - 1) .. MaxDur

NextStatusStatesVariants ==
    {ComputeNextStatusStates(TimeoutUndefined),
     ComputeNextStatusStates(TimeoutObject(NoMap))}

InitPure ==
    /\ mounted = TRUE
    /\ options = [text |-> Undefined, timeout |-> TimeoutUndefined]
    /\ hasTimeoutChange = ComputeHasTimeoutChange(options.timeout)
    /\ state \in {[defaultState EXCEPT !.transitionStatus = transitionStatus]
                   : transitionStatus \in Phases}
    /\ durations \in [SequenceStatus -> PureDurations]
    /\ nextStatusStates \in NextStatusStatesVariants
    /\ callback = Closure(defaultState, options.text, nextStatusStates,
                          durations)
    /\ timers = {}
    /\ timeoutId = NoTimeoutId
    /\ effectPending = FALSE
    /\ inflight = EmptyBag
    /\ last = Step("mount")
    /\ run = NoRun

\* The function is applied to the phase, then to its own result.
GetTransitionStatusCall ==
    /\ Len(run.seen) < 2
    /\ state' = [state EXCEPT !.transitionStatus =
                     getTransitionStatus(state.transitionStatus,
                                         nextStatusStates, durations)]
    /\ run' = [on |-> TRUE,
               seen |-> Append(run.seen, state.transitionStatus),
               held |-> GetLoopIterations(state.transitionStatus, 0,
                                          nextStatusStates, durations)]
    /\ last' = Step("getTransitionStatus")
    /\ UNCHANGED <<mounted, options, hasTimeoutChange, durations,
                   nextStatusStates, callback, timers, timeoutId,
                   effectPending, inflight>>

\* Another table or another map is passed the next time.
PureArguments ==
    /\ run.on
    /\ Len(run.seen) < 2
    /\ durations' \in [SequenceStatus -> PureDurations]
    /\ nextStatusStates' \in NextStatusStatesVariants
    /\ run' = NoRun
    /\ last' = Step("arguments")
    /\ UNCHANGED <<state, mounted, options, hasTimeoutChange, callback,
                   timers, timeoutId, effectPending, inflight>>

NextPure ==
    \/ GetTransitionStatusCall
    \/ PureArguments

SpecPure == InitPure /\ [][NextPure]_vars

TypeOK ==
    /\ state \in [error : {"null", TheError},
                  copyStatus : {"idle", "resolved", "rejected"},
                  transitionStatus : Phases]
    /\ mounted \in BOOLEAN
    /\ effectPending \in BOOLEAN
    /\ options \in [text : Texts, timeout : Timeouts \cup ChangingTimeouts]
    /\ BagCardinality(inflight) <= MaxInflight
    /\ \A t \in timers : t.remaining \in 0..t.delay

-----------------------------------------------------------------------------
(* Vocabulary of the properties. *)

Rejected ==
    [error |-> TheError, copyStatus |-> "rejected", transitionStatus |-> "exited"]

Resolved(transitionStatus) ==
    [error |-> "null", copyStatus |-> "resolved",
     transitionStatus |-> transitionStatus]

\* The resolved table of the configuration of the latest render.
Configured == ComputeDurations(options.timeout)

AllZero(durs) == \A s \in SequenceStatus : durs[s] = 0

\* A call of the writeText the latest render returned.
CallsWriteText == \E text \in Args : WriteText(text)

\* The text the configuration and the argument resolve to.
ResolvedText(text) ==
    IF text.t \in {"string", "number"} THEN TextToString(text)
    ELSE IF options.text.t = "undefined" THEN <<>>
    ELSE TextToString(options.text)

-----------------------------------------------------------------------------
(* Properties. *)

\* C1: while a sequence that a successful write started from the idle state
\* is running (transitionStatus is not 'exited', no call and no new
\* configuration since it started), a call of writeText does not invoke the
\* external write primitive and leaves the state and the pending timer as
\* they are.
C1_NoOpWhileInFlight ==
    [][(run.on /\ state.transitionStatus # "exited" /\ CallsWriteText)
          => (inflight' = inflight /\ state' = state /\ timers' = timers)]_vars

\* C2: every committed state of a sequence running under a fixed
\* configuration shows 'exited' or a phase whose configured duration is
\* strictly positive.
C2_ZeroDurationNeverObserved ==
    run.on =>
        \/ state.transitionStatus = "exited"
        \/ Configured[state.transitionStatus] > 0

\* C3: a rejected write leaves {error, 'rejected', 'exited'} with no timer
\* pending, and a later writeText call with a non-empty text invokes the
\* external write primitive again.
C3_WriteFailure ==
    /\ (mounted /\ last.op = "writeRejected") => state = Rejected
    /\ (state.copyStatus = "rejected" /\ ~effectPending) => timers = {}
    /\ (/\ mounted
        /\ state = Rejected
        /\ last.op = "writeText"
        /\ ResolvedText(last.arg) # <<>>) => last.invoked

\* C4: with timeout a single number T > 0, a successful write from the idle
\* state shows {resolved, entered} at once, one timer of length T waits, and
\* when T has elapsed undisturbed the state is {null, idle, exited}; neither
\* 'entering' nor 'exiting' is shown.
SimpleTimeout == options.timeout.t = "number" /\ options.timeout.n > 0

C4_SimpleRoundTrip ==
    (run.on /\ SimpleTimeout) =>
        IF run.seen = <<>>
        THEN /\ state = Resolved("entered")
             /\ ~effectPending =>
                    \E t \in timers :
                        /\ timers = {t}
                        /\ t.delay = options.timeout.n
                        /\ t.remaining = t.delay - run.held
        ELSE /\ run.seen = <<[copyStatus |-> "resolved",
                              transitionStatus |-> "entered",
                              held |-> options.timeout.n]>>
             /\ state = defaultState
             /\ timers = {}

\* The simple round trip has completed after the longest configured wait.
C4_Witness ==
    /\ run.on
    /\ SimpleTimeout
    /\ options.timeout.n = MaxDur
    /\ run.seen # <<>>
    /\ ~effectPending

\* C5: with a per-phase map where entered > 0 and exiting > 0, an
\* undisturbed sequence shows the phases in cycle order ('entering' only if
\* entering > 0), holds each for exactly its configured duration with copy
\* 'resolved', and ends in {null, idle, exited}.
SequenceTimeout ==
    /\ options.timeout.t = "object"
    /\ Configured.entered > 0
    /\ Configured.exiting > 0

ExpectedPhases ==
    (IF Configured.entering > 0 THEN <<"entering">> ELSE <<>>)
        \o <<"entered", "exiting", "exited">>

C5_SequenceRoundTrip ==
    (run.on /\ SequenceTimeout) =>
        LET n == Len(run.seen)
            phase == state.transitionStatus
        IN  /\ n < Len(ExpectedPhases)
            /\ \A i \in 1..n :
                  /\ run.seen[i].transitionStatus = ExpectedPhases[i]
                  /\ run.seen[i].copyStatus = "resolved"
                  /\ run.seen[i].held = Configured[ExpectedPhases[i]]
            /\ phase = ExpectedPhases[n + 1]
            /\ state = IF phase = "exited" THEN defaultState
                       ELSE Resolved(phase)
            /\ (phase # "exited" /\ ~effectPending) =>
                  \E t \in timers :
                      /\ timers = {t}
                      /\ t.delay = Configured[phase]
                      /\ t.remaining = t.delay - run.held
            /\ phase = "exited" => timers = {}

\* A sequence of three shown phases has run to its end.
C5_Witness ==
    /\ run.on
    /\ SequenceTimeout
    /\ Len(run.seen) = 3
    /\ state = defaultState
    /\ ~effectPending

\* C6: when every configured duration is 0, the phase stays 'exited', a
\* writeText call with a non-empty text invokes the external write
\* primitive, and its success leaves the state as it was (also the state a
\* failed write left), with no timer.
C6_AllZeroCollapse ==
    [][AllZero(Configured) =>
          /\ state.transitionStatus = "exited"
          /\ state'.transitionStatus = "exited"
          /\ \A text \in Args :
                (WriteText(text) /\ ResolvedText(text) # <<>>)
                    => (last'.invoked /\ inflight' # inflight)
          /\ (\E closure \in BagToSet(inflight) : WriteResolved(closure))
                => (state' = state /\ timers' = {} /\ ~effectPending')]_vars

\* A write succeeded under an all-zero table after an earlier one failed.
C6_Witness ==
    /\ last.op = "writeResolved"
    /\ AllZero(Configured)
    /\ state = Rejected

\* C7: while a timer is pending, a render with a newly allocated timeout
\* object of the same keys and values recomputes neither memo and leaves
\* the pending timer, with the time it has left, as it is.
C7_IdempotentConfiguration ==
    [][(/\ timers # {}
        /\ options.timeout.t = "object"
        /\ \E text \in Texts : Configure(text, options.timeout))
          => /\ timers' = timers
             /\ timeoutId' = timeoutId
             /\ ~effectPending'
             /\ ~last'.recomputed
             /\ durations' = durations
             /\ nextStatusStates' = nextStatusStates]_vars

\* A render with a value-equal timeout object happened while a timer had
\* already run for some time.
C7_Witness ==
    /\ last.op = "configure"
    /\ options.timeout.t = "object"
    /\ \E t \in timers : t.remaining < t.delay

\* C8: a writeText call whose text resolves to the empty string invokes
\* nothing and changes neither the state nor the timers; a plain argument
\* takes precedence over options.text, and any other argument falls back to
\* the options.text of the latest render.
C8_EmptyTextNoOp ==
    [][\A text \in Args :
          WriteText(text) =>
              /\ ResolvedText(text) = <<>> =>
                    /\ ~last'.invoked
                    /\ inflight' = inflight
                    /\ state' = state
                    /\ timers' = timers
                    /\ effectPending' = effectPending
              /\ last'.invoked => last'.wrote = ResolvedText(text)]_vars

\* An explicit '' was passed while the configured text is not empty, from
\* the resting state, and nothing was written.
C8_Witness ==
    /\ last.op = "writeText"
    /\ last.arg = Str(<<>>)
    /\ options.text = Str(<<"h", "i">>)
    /\ callback.transitionStatus = "exited"
    /\ ~last.invoked

\* C9: the promise of a writeText call is never rejected, whatever the
\* state and whatever the external write primitive does.
C9_NeverRejects == last.promise \in {"none", "pending", "fulfilled"}

\* The external write failed and the call completed all the same.
C9_Witness ==
    /\ last.op = "writeRejected"
    /\ last.promise = "fulfilled"
    /\ state = Rejected

\* C10: once unmounted, no timer is pending and the state never changes
\* again, whether a timer was pending or a write outstanding at the time.
C10_TeardownSafety ==
    [][/\ ~mounted' => timers' = {}
       /\ ~mounted => (state' = state /\ ~mounted' /\ ~effectPending')]_vars

\* Unmounted in the middle of a sequence, and a write failed afterwards.
C10_Witness ==
    /\ ~mounted
    /\ last.op = "writeRejected"
    /\ state.copyStatus = "resolved"

\* C11: when all writeText calls are issued while the phase is 'exited',
\* once one completion has started a sequence no later completion,
\* successful or failed, changes the state or touches the pending timer.
C11_SingleSequence ==
    [][(/\ mounted
        /\ state.transitionStatus # "exited"
        /\ \E closure \in BagToSet(inflight) :
               WriteResolved(closure) \/ WriteRejected(closure))
          => (state' = state /\ timers' = timers /\ ~effectPending')]_vars

\* C12: at most one timer is pending, and it is the one the cleanup of the
\* last effect run will cancel: no timer an effect run has replaced is left
\* to fire.
C12_SingleTimer ==
    /\ Cardinality(timers) <= 1
    /\ \A t \in timers : t.id = timeoutId

\* The timeout changed while the timer of 'entering' was waiting, and the
\* effect replaced that timer by one for 'entered'.
C12_Witness ==
    /\ ~effectPending
    /\ state.transitionStatus = "entering"
    /\ \E t \in timers : t.transitionStatus = "entered"

\* C13: copyStatus is 'resolved' exactly on the phases entering, entered
\* and exiting, 'rejected' only on 'exited', and error is set exactly when
\* copyStatus is 'rejected'.
C13_StatusPairing ==
    /\ state.copyStatus = "resolved" <=> state.transitionStatus # "exited"
    /\ state.copyStatus = "rejected" => state.transitionStatus = "exited"
    /\ state.error # "null" <=> state.copyStatus = "rejected"

\* A render changed the table in the middle of a sequence.
C13_Witness ==
    /\ last.op = "configure"
    /\ last.recomputed
    /\ state.copyStatus = "resolved"
    /\ timers # {}

\* C14: while a timer of an undisturbed sequence waits, the committed phase
\* is the phase whose duration the timer waits for.
C14_TimerMatchesPhase ==
    (run.on /\ ~effectPending) =>
        \A t \in timers : t.transitionStatus = state.transitionStatus

\* C16: once the effect has run, every pending timer waits the duration the
\* current configuration gives its phase and will adopt the pair of the
\* Next-Phase Map of the current configuration.
C16_TimerOfCurrentConfiguration ==
    ~effectPending =>
        \A t \in timers :
            /\ t.delay = Configured[t.transitionStatus]
            /\ t.nextStatusStates = ComputeNextStatusStates(options.timeout)

\* C18: the Duration Table and the Next-Phase Map in use are the ones the
\* current configuration resolves to.
C18_TableTracksConfiguration ==
    /\ durations = Configured
    /\ nextStatusStates = ComputeNextStatusStates(options.timeout)

\* A render that changes the timeout to one that resolves to the same
\* durations and the same variant of the Next-Phase Map.
SameEffectiveConfiguration(timeout) ==
    /\ Configure(options.text, timeout)
    /\ ComputeDurations(timeout) = Configured
    /\ ComputeNextStatusStates(timeout)
           = ComputeNextStatusStates(options.timeout)

AfterSuccess(closure, nss, durs) ==
    LET transitionStatus ==
            getTransitionStatus(nextStatuses[closure.transitionStatus],
                                nss, durs)
    IN  IF transitionStatus = "exited" THEN state
        ELSE Resolved(transitionStatus)

\* C20 as stated: a successful completion adopts the first status computed
\* from the table and the map of the latest render.
C20_CompletionUsesLatestRender ==
    [][\A closure \in BagToSet(inflight) :
          (mounted /\ WriteResolved(closure)) =>
              state' = AfterSuccess(closure, nextStatusStates, durations)]_vars

\* C20: a successful completion adopts the first status computed from the
\* table and the map of the render whose writeText was called, whatever the
\* renders since have configured.
C20_CompletionUsesCallingRender ==
    [][\A closure \in BagToSet(inflight) :
          (mounted /\ WriteResolved(closure)) =>
              state' = AfterSuccess(closure, closure.nextStatusStates,
                                    closure.durations)]_vars

\* A completion adopted 'entering' although the latest render gives
\* 'entering' no duration.
C20_Witness ==
    /\ last.op = "writeResolved"
    /\ mounted
    /\ state = Resolved("entering")
    /\ durations.entering = 0
    /\ Configured.entering = 0

\* The phase after this one in the map; 'exited' has none.
NextOf(status, nss) ==
    IF status = "exited" THEN "exited" ELSE nss[status].transitionStatus

\* The chain start, next(start), next(next(start)), next(next(next(start))).
Chain(start, nss) ==
    LET second == NextOf(start, nss)
        third == NextOf(second, nss)
    IN  <<start, second, third, NextOf(third, nss)>>

Stops(status, durs) == status = "exited" \/ durs[status] > 0

FirstOnChain(start, nss, durs) ==
    LET chain == Chain(start, nss)
        first == CHOOSE i \in DOMAIN chain :
                    /\ Stops(chain[i], durs)
                    /\ \A j \in 1..(i - 1) : ~Stops(chain[j], durs)
    IN  chain[first]

\* C19: getTransitionStatus runs its loop at most three times and returns
\* the first phase on the chain from its argument that is 'exited' or has
\* a duration above zero; it returns such an argument as it is, and
\* applied to its own result it returns that result.
C19_SkipZeroDurations ==
    run.on =>
        LET argument == run.seen[Len(run.seen)]
        IN  /\ run.held <= Cardinality(SequenceStatus)
            /\ state.transitionStatus
                   = FirstOnChain(argument, nextStatusStates, durations)
            /\ Stops(argument, durations)
                   => state.transitionStatus = argument
            /\ Stops(state.transitionStatus, durations)
            /\ Len(run.seen) = 2 => state.transitionStatus = argument

\* Three phases were skipped, the first for a duration below zero, and the
\* function was applied again to the 'exited' it returned.
C19_Witness ==
    /\ run.on
    /\ run.seen = <<"entering", "exited">>
    /\ durations.entering < 0
    /\ durations.entered = 0
    /\ nextStatusStates = defaultNextStatusStates
    /\ state.transitionStatus = "exited"

\* Nothing is left to do: the idle state, no timer, no effect to run.
Idle == state = defaultState /\ timers = {} /\ ~effectPending

\* The last step was a call, a failed write, a render or the unmount.
Disturbed ==
    last.op \in {"writeText", "writeRejected", "configure", "unmount"}

=============================================================================
